---- MODULE Spec2Model ----
(***************************************************************************)
(* Model of adafruit_74hc595.py: the ShiftRegister74HC595 driver (shadow   *)
(* register _gpio, SPI or bit-banged transmission) and its DigitalInOut    *)
(* pin handles, together with the chain of 74HC595 chips it drives.        *)
(*                                                                         *)
(* Bytes are integers 0..255, line levels are BOOLEAN (TRUE = high), the   *)
(* chain's stages are sequences of 0/1 with index 1 the stage next to the  *)
(* serial input of the first chip.                                         *)
(***************************************************************************)
EXTENDS Integers, Sequences, FiniteSets

\* ---------------------------------------------------------------- bounds
\* Longest chain explored (number_of_shift_registers ranges over 0..MaxChips).
MaxChips == 2
\* Caller operations explored after construction.
MaxOps == 3

\* ------------------------------------------------------------- constants
\* Outputs per chip: the literal 8 of get_pin, DigitalInOut and _output_byte.
BitsPerChip == 8

\* Byte values the caller writes (the two bytes of the bit-ordering scenario).
TestBytes == {165, 60}

VARIABLES
    chips,      \* physical length of the chain; the caller passes it as number_of_shift_registers
    phase,      \* "new" | "constructing" | "ready" | "config_error"
    args,       \* which constructor arguments were not None
    device,     \* self._device: "unset" | "spi" | "none"
    n,          \* self._number_of_shift_registers
    gpio,       \* self._gpio
    val,        \* the argument of the gpio setter call in progress / last made
    callerRef,  \* the caller holds a reference to the object self._gpio names
    handle,     \* the DigitalInOut the caller got from its last successful get_pin
    latch,      \* level of the latch line (RCLK; chip select on the SPI path)
    clock,      \* level of the manual clock line (SRCLK)
    data,       \* level of the manual data line (SER)
    driven,     \* the manual lines the driver has driven so far
    stage,      \* the chain's shift-register stages
    outputs,    \* the chain's latched parallel outputs
    pc,         \* position inside the running operation, "idle" between operations
    byteIdx,    \* _gpio index of the byte being shifted out (manual path)
    bitIdx,     \* i of _output_byte's loop
    step,       \* index into BitSteps of the next statement of the loop body
    op,         \* the operation running / last run, with its arguments
    err,        \* "none" or the exception raised by op
    edges,      \* data-line values at the clock rising edges of the current transmission
    latchUps,   \* latch rising edges of the current transmission
    txDone,     \* the current transmission was completed and latched
    sent,       \* the bytes most recently transmitted completely and latched
    opsLeft     \* caller operations still allowed by MaxOps

vars == <<chips, phase, args, device, n, gpio, val, callerRef, handle, latch, clock,
          data, driven, stage, outputs, pc, byteIdx, bitIdx, step, op, err, edges,
          latchUps, txDone, sent, opsLeft>>

\* Variable groups, for UNCHANGED.
hwVars == <<latch, clock, data, driven, stage, outputs>>
loopVars == <<byteIdx, bitIdx, step>>
txVars == <<edges, latchUps, txDone, sent>>
objVars == <<phase, args, device, n>>

\* ------------------------------------------------------------ arithmetic
Pow2(k) == 2 ^ k
Bit(byte, k) == (byte \div Pow2(k)) % 2

RECURSIVE BitAndUpTo(_, _, _)
BitAndUpTo(a, b, k) ==
    IF k < 0 THEN 0
    ELSE Bit(a, k) * Bit(b, k) * Pow2(k) + BitAndUpTo(a, b, k - 1)
\* a & b on the low byte.
BitAnd(a, b) == BitAndUpTo(a, b, BitsPerChip - 1)

RECURSIVE BitOrUpTo(_, _, _)
BitOrUpTo(a, b, k) ==
    IF k < 0 THEN 0
    ELSE (IF Bit(a, k) + Bit(b, k) > 0 THEN Pow2(k) ELSE 0) + BitOrUpTo(a, b, k - 1)
\* a | b on the low byte.
BitOr(a, b) == BitOrUpTo(a, b, BitsPerChip - 1)

\* The low byte of Python's ~m.
BitNot(m) == Pow2(BitsPerChip) - 1 - m

Zeros(k) == [i \in 1..k |-> 0]
B2I(b) == IF b THEN 1 ELSE 0

\* ---------------------------------------------------------- DigitalInOut
NoHandle == [pin |-> -1, byte_pos |-> -1, byte_pin |-> -1]

\* DigitalInOut.__init__
DigitalInOut(pin) ==
    [pin |-> pin, byte_pos |-> pin \div BitsPerChip, byte_pin |-> pin % BitsPerChip]

\* DigitalInOut.value (getter) on shadow g; _gpio is 0-indexed, g is 1-indexed.
Value(g, h) ==
    BitAnd(g[h.byte_pos + 1], Pow2(h.byte_pin)) = Pow2(h.byte_pin)

SetBit_WholeByte(byte, k) == Pow2(BitsPerChip) - 1
\* gpio[self._byte_pos] |= 1 << self._byte_pin
SetBit(byte, k) == BitOr(byte, Pow2(k))

\* gpio[self._byte_pos] &= ~(1 << self._byte_pin)
ClearBit(byte, k) == BitAnd(byte, BitNot(Pow2(k)))

\* The guard of the value setter.
SetterInRange(h, num) == h.pin >= 0 /\ h.pin < num * BitsPerChip

\* The buffer the value setter hands to the gpio setter.
WithPin(g, h, v) ==
    [g EXCEPT ![h.byte_pos + 1] =
        IF v THEN SetBit(@, h.byte_pin) ELSE ClearBit(@, h.byte_pin)]

PinInRange_OffByOne(pin, num) == 0 <= pin /\ pin <= num * BitsPerChip
\* The assertion of get_pin.
PinInRange(pin, num) == 0 <= pin /\ pin <= (num * BitsPerChip) - 1

\* --------------------------------------------------------- construction
Transport_ManualFirst(spiA, clockA, dataA) ==
    IF clockA /\ dataA THEN "manual"
    ELSE IF spiA THEN "spi"
    ELSE "error"
Transport_ClockOnly(spiA, clockA, dataA) ==
    IF spiA THEN "spi"
    ELSE IF clockA \/ dataA THEN "manual"
    ELSE "error"
\* The if / elif / else of __init__ after the latch check.
Transport(spiA, clockA, dataA) ==
    IF spiA THEN "spi"
    ELSE IF clockA /\ dataA THEN "manual"
    ELSE "error"

\* ------------------------------------------------------------ the chain
\* One rising edge of the shift clock with serial input d.
ShiftIn(regs, d) ==
    IF regs = <<>> THEN <<>> ELSE <<d>> \o SubSeq(regs, 1, Len(regs) - 1)

RECURSIVE ShiftAll(_, _)
ShiftAll(regs, bits) ==
    IF bits = <<>> THEN regs ELSE ShiftAll(ShiftIn(regs, Head(bits)), Tail(bits))

\* The byte on chip k's outputs (Q0 is bit 0), chip 1 being the first chip.
ChipByte(regs, k) ==
    LET base == BitsPerChip * (k - 1)
        F[i \in 0..BitsPerChip] ==
            IF i = 0 THEN 0 ELSE F[i - 1] + regs[base + i] * Pow2(i - 1)
    IN F[BitsPerChip]

\* A byte on the wire, most-significant bit first.
MsbFirst(byte) == [i \in 1..BitsPerChip |-> (byte \div Pow2(BitsPerChip - i)) % 2]

RECURSIVE SpiBits(_)
\* busio.SPI.write: the buffer's bytes in order, each most-significant bit first.
SpiBits(bytes) ==
    IF bytes = <<>> THEN <<>> ELSE MsbFirst(Head(bytes)) \o SpiBits(Tail(bytes))

\* --------------------------------------------------------- transmission
BitSteps_DataAfterRise == <<"clock_low", "clock_high", "set_data">>
\* The three statements of _output_byte's loop body, in order.
BitSteps == <<"clock_low", "set_data", "clock_high">>

DataBit_LsbFirst(value, i) == BitAnd(value, Pow2(i)) # 0
\* (value & (1 << (7 - i))) != 0
DataBit(value, i) == BitAnd(value, Pow2(7 - i)) # 0

ShadowOnSet_Deferred(old, new) == old
\* self._gpio = val, the first statement of the gpio setter.
ShadowOnSet(old, new) == new

\* The bytes a complete bit-banged transmission carried, in _gpio order.
DecodeManual(bits) ==
    LET k == Len(bits) \div BitsPerChip
        Group(g) == SubSeq(bits, BitsPerChip * (g - 1) + 1, BitsPerChip * g)
        Byte(b) == LET F[i \in 0..BitsPerChip] ==
                           IF i = 0 THEN 0 ELSE 2 * F[i - 1] + b[i]
                   IN F[BitsPerChip]
    IN [j \in 1..k |-> Byte(Group(k + 1 - j))]

\* ------------------------------------------------------------------ Init
Init ==
    /\ chips \in 0..MaxChips
    /\ phase = "new"
    /\ args = [spi |-> FALSE, latch |-> FALSE, clock |-> FALSE, data |-> FALSE]
    /\ device = "unset"
    /\ n = 0
    /\ gpio = <<>>
    /\ val = <<>>
    /\ callerRef = FALSE
    /\ handle = NoHandle
    /\ latch = TRUE
    /\ clock = TRUE
    /\ data = TRUE
    /\ driven = {}
    /\ \E fill \in {0, 1} : stage = [i \in 1..(BitsPerChip * chips) |-> fill]
    /\ outputs = stage
    /\ pc = "idle"
    /\ byteIdx = 0
    /\ bitIdx = 0
    /\ step = 1
    /\ op = [name |-> "none", pin |-> -1, val |-> FALSE]
    /\ err = "none"
    /\ edges = <<>>
    /\ latchUps = 0
    /\ txDone = FALSE
    /\ sent = Zeros(chips)
    /\ opsLeft = MaxOps

\* ---------------------------------------------- ShiftRegister74HC595.__init__
\* __init__ up to the first pin it drives; with SPI the whole of it.
\* SPIDevice's own constructor parks the chip select (the latch line) high.
Construct(spiA, latchA, clockA, dataA) ==
    /\ phase = "new"
    /\ args' = [spi |-> spiA, latch |-> latchA, clock |-> clockA, data |-> dataA]
    /\ op' = [name |-> "construct", pin |-> -1, val |-> FALSE]
    /\ IF ~latchA \/ Transport(spiA, clockA, dataA) = "error"
       THEN /\ phase' = "config_error"
            /\ err' = "ValueError"
            /\ UNCHANGED <<device, n, gpio, pc, latch, sent>>
       ELSE IF Transport(spiA, clockA, dataA) = "spi"
       THEN /\ phase' = "ready"
            /\ err' = "none"
            /\ device' = "spi"
            /\ latch' = TRUE
            /\ n' = chips
            /\ gpio' = Zeros(chips)
            /\ sent' = Zeros(chips)
            /\ UNCHANGED pc
       ELSE /\ phase' = "constructing"
            /\ err' = "none"
            /\ device' = "none"
            /\ pc' = "init_latch"
            /\ UNCHANGED <<n, gpio, latch, sent>>
    /\ UNCHANGED <<chips, val, callerRef, handle, clock, data, driven, stage, outputs,
                   loopVars, edges, latchUps, txDone, opsLeft>>

\* self._latch.switch_to_output(value=False)
InitLatch ==
    /\ pc = "init_latch"
    /\ latch' = FALSE
    /\ driven' = driven \cup {"latch"}
    /\ pc' = "init_clock"
    /\ UNCHANGED <<chips, objVars, gpio, val, callerRef, handle, clock, data, stage,
                   outputs, loopVars, op, err, txVars, opsLeft>>

\* self._clock.switch_to_output(value=False)
InitClock ==
    /\ pc = "init_clock"
    /\ clock' = FALSE
    /\ driven' = driven \cup {"clock"}
    /\ pc' = "init_data"
    /\ UNCHANGED <<chips, objVars, gpio, val, callerRef, handle, latch, data, stage,
                   outputs, loopVars, op, err, txVars, opsLeft>>

\* self._data.switch_to_output(value=False), then the two assignments that
\* end __init__.
InitData ==
    /\ pc = "init_data"
    /\ data' = FALSE
    /\ driven' = driven \cup {"data"}
    /\ n' = chips
    /\ gpio' = Zeros(chips)
    /\ phase' = "ready"
    /\ pc' = "idle"
    /\ UNCHANGED <<chips, args, device, val, callerRef, handle, latch, clock, stage,
                   outputs, loopVars, op, err, txVars, opsLeft>>

\* ------------------------------------------------------------ gpio setter
\* The gpio setter called with buffer v: the assignment, then the start of
\* the transmission its branch selects.
GpioSetter(v) ==
    /\ val' = v
    /\ gpio' = ShadowOnSet(gpio, v)
    /\ pc' = IF device # "none" THEN "spi_enter" ELSE "latch_low"
    /\ edges' = <<>>
    /\ latchUps' = 0
    /\ txDone' = FALSE
    /\ UNCHANGED <<sent, loopVars>>

\* The caller is between two operations and makes another one. It handles
\* the AssertionError of get_pin and goes on; a transport error that reaches
\* it is not handled (as in examples/74hc595_gpio_only.py) and ends the
\* program.
Idle == phase = "ready" /\ pc = "idle" /\ err # "TransportError" /\ opsLeft > 0

\* sr.gpio = bytes: the caller keeps the buffer it passed.
Write(bytes) ==
    /\ Idle
    /\ op' = [name |-> "write", pin |-> -1, val |-> FALSE]
    /\ err' = "none"
    /\ opsLeft' = opsLeft - 1
    /\ callerRef' = TRUE
    /\ GpioSetter(bytes)
    /\ UNCHANGED <<chips, objVars, handle, hwVars>>

\* sr.gpio read by the caller: the getter returns self._gpio itself.
Read ==
    /\ Idle
    /\ op' = [name |-> "read", pin |-> -1, val |-> FALSE]
    /\ err' = "none"
    /\ opsLeft' = opsLeft - 1
    /\ callerRef' = TRUE
    /\ UNCHANGED <<chips, objVars, gpio, val, handle, hwVars, pc, loopVars, txVars>>

\* The caller stores byte b at index i of a buffer it holds that is the
\* object self._gpio names (obtained from the getter or passed to the setter).
CallerMutate(i, b) ==
    /\ Idle
    /\ callerRef
    /\ i \in 1..Len(gpio)
    /\ gpio[i] # b
    /\ op' = [name |-> "mutate", pin |-> -1, val |-> FALSE]
    /\ err' = "none"
    /\ opsLeft' = opsLeft - 1
    /\ gpio' = [gpio EXCEPT ![i] = b]
    /\ UNCHANGED <<chips, objVars, val, callerRef, handle, hwVars, pc, loopVars,
                   txVars>>

\* sr.get_pin(pin)
GetPin(pin) ==
    /\ Idle
    /\ op' = [name |-> "get_pin", pin |-> pin, val |-> FALSE]
    /\ opsLeft' = opsLeft - 1
    /\ IF PinInRange(pin, n)
       THEN /\ handle' = DigitalInOut(pin)
            /\ err' = "none"
       ELSE /\ err' = "AssertionError"
            /\ UNCHANGED handle
    /\ UNCHANGED <<chips, objVars, gpio, val, callerRef, hwVars, pc, loopVars, txVars>>

\* The value setter of the caller's handle: the read-modify-write of the
\* shadow and the call of the gpio setter with that same buffer.
ValueSetter(v) ==
    IF SetterInRange(handle, n)
    THEN GpioSetter(WithPin(gpio, handle, v))
    ELSE UNCHANGED <<gpio, val, pc, loopVars, txVars>>

\* pin.value = v
SetValue(v) ==
    /\ Idle
    /\ handle # NoHandle
    /\ op' = [name |-> "set_value", pin |-> handle.pin, val |-> v]
    /\ err' = "none"
    /\ opsLeft' = opsLeft - 1
    /\ ValueSetter(v)
    /\ UNCHANGED <<chips, objVars, callerRef, handle, hwVars>>

\* pin.switch_to_output(value=v): the direction setter accepts OUTPUT, then
\* the value setter runs.
SwitchToOutput(v) ==
    /\ Idle
    /\ handle # NoHandle
    /\ op' = [name |-> "switch_to_output", pin |-> handle.pin, val |-> v]
    /\ err' = "none"
    /\ opsLeft' = opsLeft - 1
    /\ ValueSetter(v)
    /\ UNCHANGED <<chips, objVars, callerRef, handle, hwVars>>

\* ------------------------------------------------------ manual transmission
\* self._latch.value = False, and the entry of the loop over reversed(_gpio).
LatchLow ==
    /\ pc = "latch_low"
    /\ latch' = FALSE
    /\ IF Len(gpio) = 0
       THEN pc' = "latch_high" /\ UNCHANGED loopVars
       ELSE pc' = "shift" /\ byteIdx' = Len(gpio) /\ bitIdx' = 0 /\ step' = 1
    /\ UNCHANGED <<chips, objVars, gpio, val, callerRef, handle, clock, data, driven,
                   stage, outputs, op, err, txVars, opsLeft>>

\* Control after one statement of _output_byte's loop body: the next
\* statement, the next i, the next byte of reversed(_gpio), or the loop's end.
Advance ==
    IF step < Len(BitSteps)
    THEN step' = step + 1 /\ UNCHANGED <<pc, byteIdx, bitIdx>>
    ELSE /\ step' = 1
         /\ IF bitIdx < BitsPerChip - 1
            THEN bitIdx' = bitIdx + 1 /\ UNCHANGED <<pc, byteIdx>>
            ELSE /\ bitIdx' = 0
                 /\ IF byteIdx > 1
                    THEN byteIdx' = byteIdx - 1 /\ UNCHANGED pc
                    ELSE pc' = "latch_high" /\ UNCHANGED byteIdx

\* self._clock.value = False
ClockLow ==
    /\ pc = "shift"
    /\ BitSteps[step] = "clock_low"
    /\ clock' = FALSE
    /\ Advance
    /\ UNCHANGED <<chips, objVars, gpio, val, callerRef, handle, latch, data, driven,
                   stage, outputs, op, err, txVars, opsLeft>>

\* self._data.value = (value & (1 << (7 - i))) != 0
SetData ==
    /\ pc = "shift"
    /\ BitSteps[step] = "set_data"
    /\ data' = DataBit(gpio[byteIdx], bitIdx)
    /\ Advance
    /\ UNCHANGED <<chips, objVars, gpio, val, callerRef, handle, latch, clock, driven,
                   stage, outputs, op, err, txVars, opsLeft>>

\* self._clock.value = True: on a rising edge the chain shifts the data
\* line's level in.
ClockHigh ==
    /\ pc = "shift"
    /\ BitSteps[step] = "clock_high"
    /\ clock' = TRUE
    /\ IF ~clock
       THEN stage' = ShiftIn(stage, B2I(data)) /\ edges' = Append(edges, B2I(data))
       ELSE UNCHANGED <<stage, edges>>
    /\ Advance
    /\ UNCHANGED <<chips, objVars, gpio, val, callerRef, handle, latch, data, driven,
                   outputs, op, err, latchUps, txDone, sent, opsLeft>>

\* self._latch.value = True: on a rising edge the chain copies its stages to
\* its outputs.
LatchHigh ==
    /\ pc = "latch_high"
    /\ latch' = TRUE
    /\ IF ~latch
       THEN /\ outputs' = stage
            /\ latchUps' = latchUps + 1
            /\ txDone' = TRUE
            /\ sent' = DecodeManual(edges)
       ELSE UNCHANGED <<outputs, latchUps, txDone, sent>>
    /\ pc' = "idle"
    /\ UNCHANGED <<chips, objVars, gpio, val, callerRef, handle, clock, data, driven,
                   stage, loopVars, op, err, edges, opsLeft>>

\* --------------------------------------------------------- SPI transmission
\* with self._device as spi: SPIDevice selects the chip (latch line low).
SpiEnter ==
    /\ pc = "spi_enter"
    /\ latch' = FALSE
    /\ pc' = "spi_write"
    /\ UNCHANGED <<chips, objVars, gpio, val, callerRef, handle, clock, data, driven,
                   stage, outputs, loopVars, op, err, txVars, opsLeft>>

\* spi.write(self._gpio)
SpiWrite ==
    /\ pc = "spi_write"
    /\ stage' = ShiftAll(stage, SpiBits(gpio))
    /\ pc' = "spi_exit"
    /\ UNCHANGED <<chips, objVars, gpio, val, callerRef, handle, latch, clock, data,
                   driven, outputs, loopVars, op, err, txVars, opsLeft>>

\* The end of the with block: SPIDevice deselects the chip (latch line high,
\* a rising edge for the chain), after a complete write or with the write's
\* exception on its way to the caller.
SpiExit ==
    /\ pc = "spi_exit"
    /\ latch' = TRUE
    /\ outputs' = stage
    /\ latchUps' = latchUps + 1
    /\ IF err = "none"
       THEN txDone' = TRUE /\ sent' = gpio
       ELSE UNCHANGED <<txDone, sent>>
    /\ pc' = "idle"
    /\ UNCHANGED <<chips, objVars, gpio, val, callerRef, handle, clock, data, driven,
                   stage, loopVars, op, err, edges, opsLeft>>

\* -------------------------------------------------------- transport failure
\* The assignment to a manual line that is next raises: nothing catches it,
\* the gpio setter is left at once and the exception is the caller's.
LineFail ==
    /\ pc \in {"latch_low", "shift", "latch_high"}
    /\ err' = "TransportError"
    /\ pc' = "idle"
    /\ UNCHANGED <<chips, objVars, gpio, val, callerRef, handle, hwVars, loopVars, op,
                   txVars, opsLeft>>

\* spi.write raises after k whole bytes went out.
SpiWriteFail(k) ==
    /\ pc = "spi_write"
    /\ k \in 0..(Len(gpio) - 1)
    /\ stage' = ShiftAll(stage, SpiBits(SubSeq(gpio, 1, k)))
    /\ err' = "TransportError"
    /\ pc' = "spi_exit"
    /\ UNCHANGED <<chips, objVars, gpio, val, callerRef, handle, latch, clock, data,
                   driven, outputs, loopVars, op, txVars, opsLeft>>

\* ------------------------------------------------------------ specifications
PinInputs == -1..(BitsPerChip * MaxChips)

Next ==
    \/ \E s, l, c, d \in BOOLEAN : Construct(s, l, c, d)
    \/ InitLatch
    \/ InitClock
    \/ InitData
    \/ \E bytes \in [1..n -> TestBytes] : Write(bytes)
    \/ Read
    \/ \E i \in 1..MaxChips, b \in TestBytes : CallerMutate(i, b)
    \/ \E pin \in PinInputs : GetPin(pin)
    \/ \E v \in BOOLEAN : SetValue(v)
    \/ \E v \in BOOLEAN : SwitchToOutput(v)
    \/ LatchLow
    \/ ClockLow
    \/ SetData
    \/ ClockHigh
    \/ LatchHigh
    \/ SpiEnter
    \/ SpiWrite
    \/ SpiExit

\* Operation of the driver with no transport failure.
Spec == Init /\ [][Next]_vars

NextFail ==
    \/ Next
    \/ LineFail
    \/ \E k \in 0..MaxChips : SpiWriteFail(k)

\* Operation of the driver with transport failures.
SpecFail == Init /\ [][NextFail]_vars

\* ---------------------------------------------------------------- claims
\* The operations that hand a buffer to the gpio setter.
TxOps == {"write", "set_value", "switch_to_output"}

\* A pin's level as its handle reads it from shadow g.
PinValue(g, p) == Value(g, DigitalInOut(p))

RECURSIVE ManualBits(_)
\* The bit sequence claim C2 expects on the data line for shadow bytes b: the
\* bytes last to first, each most-significant bit first.
ManualBits(b) ==
    IF b = <<>> THEN <<>>
    ELSE MsbFirst(b[Len(b)]) \o ManualBits(SubSeq(b, 1, Len(b) - 1))

IsPrefix(s, t) == Len(s) <= Len(t) /\ s = SubSeq(t, 1, Len(s))

\* The outputs a chain of n chips latches after all of bits were clocked in.
LatchedAfter(bits) == ShiftAll(Zeros(BitsPerChip * n), bits)

\* C1: set_value(v) on the handle of an in-range pin makes value() of that
\* pin v and leaves value() of every other pin of the chain as it was, and
\* the shadow stays so until set_value returns.
C1_SetValueRoundTrip ==
    [][ /\ (opsLeft' < opsLeft /\ op'.name = "set_value") =>
              /\ Value(gpio', handle) = op'.val
              /\ \A p \in 0..(n * BitsPerChip - 1) :
                     p # handle.pin => PinValue(gpio', p) = PinValue(gpio, p)
        /\ (op.name = "set_value" /\ pc # "idle") => gpio' = gpio
      ]_vars

\* C1 witness: on a two-chip chain holding 0xA5, 0x3C, pin 9 was set high.
C1_Witness ==
    /\ op.name = "set_value" /\ op.val /\ pc = "idle"
    /\ n = 2 /\ handle.pin = 9 /\ gpio = <<165, 62>>

\* C2: on the manual path the clock rising edges of a write of B carry the
\* bytes of B last to first, each most-significant bit first, 8 per chip;
\* the latch is low before the first edge and during all of them, and rises
\* once, after the last.
C2_ManualBitOrder ==
    (phase = "ready" /\ device = "none" /\ op.name \in TxOps) =>
        /\ pc = "latch_low" => (edges = <<>> /\ latchUps = 0)
        /\ pc \in {"shift", "latch_high"} =>
               (~latch /\ latchUps = 0 /\ IsPrefix(edges, ManualBits(val)))
        /\ pc = "latch_high" => edges = ManualBits(val)
        /\ pc = "idle" =>
               /\ edges = ManualBits(val)
               /\ Len(edges) = BitsPerChip * n
               /\ latchUps = 1
               /\ latch

\* C2 witness: the write of 0xA5, 0x3C to two chips is complete.
C2_Witness ==
    /\ device = "none" /\ op.name = "write" /\ pc = "idle" /\ val = <<165, 60>>
    /\ edges = <<0, 0, 1, 1, 1, 1, 0, 0, 1, 0, 1, 0, 0, 1, 0, 1>>
    /\ latchUps = 1

\* C3: get_pin(pin) returns a handle of that pin when 0 <= pin < 8 * chips,
\* and otherwise raises, returns no handle and changes neither the shadow
\* nor any line or chip.
C3_GetPinRange ==
    [][ (opsLeft' < opsLeft /\ op'.name = "get_pin") =>
            IF op'.pin \in 0..(n * BitsPerChip - 1)
            THEN err' = "none" /\ handle'.pin = op'.pin
            ELSE /\ err' = "AssertionError"
                 /\ handle' = handle
                 /\ gpio' = gpio
                 /\ pc' = "idle"
                 /\ UNCHANGED hwVars
      ]_vars

\* C3 witness: get_pin(8 * chips) on a chain of at least one chip has failed.
C3_Witness ==
    /\ op.name = "get_pin" /\ n >= 1 /\ op.pin = n * BitsPerChip
    /\ err = "AssertionError"

\* C4 (as claimed): whenever no driver operation is in progress, the shadow
\* equals the bytes most recently transmitted and latched.
C4_ShadowMatchesLatched ==
    (phase = "ready" /\ pc = "idle") => gpio = sent

\* C5 (as claimed): construction for one or more chips with an SPI bus and
\* a complete manual triple fails.
C5_BothTransportsRejected ==
    (phase # "new" /\ chips >= 1 /\ args.spi /\ args.latch /\ args.clock /\ args.data) =>
        phase = "config_error"

\* C5 (amended): construction with an SPI bus and a complete manual triple
\* succeeds on the SPI transport and never drives the clock and data pins.
C5_BothTransportsUseSpi ==
    (phase # "new" /\ args.spi /\ args.latch /\ args.clock /\ args.data) =>
        /\ phase = "ready"
        /\ device = "spi"
        /\ err # "ValueError"
        /\ driven = {}

\* C5 witness: a driver built from both transports completed a write over SPI.
C5_Witness ==
    /\ args.spi /\ args.latch /\ args.clock /\ args.data
    /\ phase = "ready" /\ device = "spi" /\ n = 2
    /\ op.name = "write" /\ pc = "idle" /\ txDone

\* C6: without an SPI bus and without all of latch, clock and data,
\* construction raises, leaves no driver and drives no line; a construction
\* that succeeds leaves a shadow of one zero byte per chip.
C6_IncompleteManualRejected ==
    /\ (phase # "new" /\ ~args.spi /\ ~(args.latch /\ args.clock /\ args.data)) =>
           /\ phase = "config_error"
           /\ err = "ValueError"
           /\ device = "unset"
           /\ gpio = <<>>
           /\ driven = {}
    /\ (phase = "ready" /\ op.name = "construct") =>
           /\ n = chips
           /\ Len(gpio) = chips
           /\ \A i \in 1..chips : gpio[i] = 0

\* C6 witness: latch and clock without data and without SPI was rejected.
C6_Witness ==
    /\ phase = "config_error"
    /\ ~args.spi /\ args.latch /\ args.clock /\ ~args.data

\* C7 (as claimed): construction for zero chips fails, so every driver has
\* at least one chip.
C7_ZeroChipsRejected ==
    /\ (phase # "new" /\ chips = 0) => phase = "config_error"
    /\ phase = "ready" => n >= 1

\* C8 (as claimed): after a complete write of B the chips' latched outputs
\* are those the serial-bus path gives for B and those the manual path gives
\* for B.
C8_SameMappingOnBothPaths ==
    (phase = "ready" /\ pc = "idle" /\ op.name = "write" /\ txDone) =>
        \A k \in 1..n :
            /\ ChipByte(outputs, k) = ChipByte(LatchedAfter(SpiBits(val)), k)
            /\ ChipByte(outputs, k) = ChipByte(LatchedAfter(ManualBits(val)), k)

\* C9: the data line changes, and is first driven, only while the clock line
\* is driven low; at every clock rising edge the data line holds, unchanged,
\* the bit of that edge.
C9_DataStableAtRisingEdge ==
    [][ /\ (data' # data \/ ("data" \in driven' /\ "data" \notin driven)) =>
              ("clock" \in driven /\ ~clock /\ ~clock')
        /\ (~clock /\ clock') =>
              /\ data' = data
              /\ pc = "shift"
              /\ data = (Bit(val[byteIdx], BitsPerChip - 1 - bitIdx) = 1)
      ]_vars

\* C9 witness: in a transmission that follows a completed one, past its
\* first byte, a rising edge has clocked a high data line in.
C9_Witness ==
    /\ device = "none" /\ pc = "shift" /\ sent # Zeros(n)
    /\ Len(edges) > BitsPerChip /\ clock /\ data /\ step = 1

\* C10 (as claimed): a transport failure during a write of B is the caller's
\* error in that call, the shadow is B although the transmission of B was
\* not completed, and no line or chip changes after the failure.
C10_NoActivityAfterFailure ==
    [][ /\ err' = "TransportError" =>
              (op'.name \in TxOps /\ gpio' = val' /\ ~txDone')
        /\ err = "TransportError" => UNCHANGED hwVars
      ]_vars

\* C10 (amended): a transport failure during a write of B is the caller's
\* error in that call and the shadow is B although the transmission of B was
\* not completed; nothing is transmitted again: the manual path leaves the
\* setter at the failing assignment, and the SPI path only ends its with
\* block, which deselects the chip (the latch line rises).
C10_FailureLeavesShadow ==
    [][ /\ err' = "TransportError" =>
              /\ op'.name \in TxOps
              /\ gpio' = val'
              /\ ~txDone'
              /\ pc' \in {"idle", "spi_exit"}
              /\ device' = "none" => (pc' = "idle" /\ latchUps' = 0)
        /\ err = "TransportError" =>
              /\ device = "spi" /\ pc = "spi_exit" /\ pc' = "idle"
              /\ latch'
              /\ UNCHANGED <<clock, data, driven, stage, gpio, val, op, err, sent>>
      ]_vars

\* C10 witness: the write of 0xA5, 0x3C failed on the manual path after
\* five bits.
C10_Witness ==
    /\ err = "TransportError" /\ device = "none" /\ pc = "idle"
    /\ op.name = "write" /\ gpio = <<165, 60>> /\ Len(edges) = 5
    /\ sent # gpio

====
